---- MODULE Spec2Model ----
(***************************************************************************)
(* DFData (pandapower/timeseries/data_sources/frame_data.py): a wrapper    *)
(* around a pandas DataFrame that the caller keeps a reference to.         *)
(*                                                                         *)
(* The DataFrame is an object on a heap; the wrapper holds a reference to  *)
(* it (self.df = df), and so does the caller, who may go on changing it.   *)
(* A table is its row labels (index), its column labels (columns), one     *)
(* dtype per column and the cells.  Labels and cells are Python values:    *)
(* an int, a float (an exact fraction n/d here) or a str (a sequence of    *)
(* characters).                                                            *)
(***************************************************************************)
EXTENDS Integers, Sequences, FiniteSets, TLC

VARIABLES heap, self, pc, last, nExt, build

vars == <<heap, self, pc, last, nExt, build>>

(***************************************************************************)
(* Bounds of the model.                                                    *)
(***************************************************************************)
MaxRows == 1
MaxCols == 2
MaxMag == 4
MaxExt == 1

(***************************************************************************)
(* Python values.                                                          *)
(***************************************************************************)
I(n) == [k |-> "int", n |-> n, d |-> 1, s |-> <<>>]
F(n, d) == [k |-> "float", n |-> n, d |-> d, s |-> <<>>]
T(s) == [k |-> "str", n |-> 0, d |-> 1, s |-> s]

IsNum(v) == v.k \in {"int", "float"}

RECURSIVE Gcd(_, _)
Gcd(a, b) == IF b = 0 THEN a ELSE Gcd(b, a % b)

\* The float n/d in lowest terms.
Frac(n, d) == LET g == Gcd(n, d) IN IF g = 0 THEN F(0, 1) ELSE F(n \div g, d \div g)

\* Numeric equality as Python's == has it: 3 == 3.0.
NumEq(a, b) == IsNum(a) /\ IsNum(b) /\ a.n * b.d = b.n * a.d

RECURSIVE Repeat(_, _)
Repeat(s, n) == IF n <= 0 THEN <<>> ELSE s \o Repeat(s, n - 1)

Raise(e) == [status |-> e, v |-> I(0)]
Return(v) == [status |-> "ok", v |-> v]

\* a * b for a cell a and a scale factor b, a number.
PyMul(a, b) ==
    CASE a.k = "int" /\ b.k = "int" -> Return(I(a.n * b.n))
      [] IsNum(a) /\ IsNum(b) /\ ~(a.k = "int" /\ b.k = "int") ->
            Return(Frac(a.n * b.n, a.d * b.d))
      [] a.k = "str" /\ b.k = "int" -> Return(T(Repeat(a.s, b.n)))
      [] OTHER -> Raise("TypeError")

(***************************************************************************)
(* int(label), as Index.astype(int) applies it to each label.              *)
(***************************************************************************)
Digits == <<"0", "1", "2", "3", "4", "5", "6", "7", "8", "9">>

IsDigit(c) == \E i \in 1..Len(Digits) : Digits[i] = c
DigitVal(c) == (CHOOSE i \in 1..Len(Digits) : Digits[i] = c) - 1

RECURSIVE IntOf(_)
IntOf(s) == IF s = <<>> THEN 0
            ELSE 10 * IntOf(SubSeq(s, 1, Len(s) - 1)) + DigitVal(s[Len(s)])

Convertible(l) ==
    \/ l.k = "int"
    \/ l.k = "str" /\ Len(l.s) > 0 /\ \A i \in 1..Len(l.s) : IsDigit(l.s[i])

ToInt(l) == IF l.k = "int" THEN l ELSE I(IntOf(l.s))

\* Index.astype(int): a new index, or ValueError and no index at all.
astype_int(idx) ==
    IF \A i \in 1..Len(idx) : Convertible(idx[i])
    THEN [status |-> "ok", keys |-> [i \in 1..Len(idx) |-> ToInt(idx[i])]]
    ELSE [status |-> "ValueError", keys |-> idx]

(***************************************************************************)
(* The DataFrame.                                                          *)
(***************************************************************************)
DTypes == {"int64", "float64", "object"}

\* The dtype a column needs to hold v.
KindDType(v) == CASE v.k = "int" -> "int64" [] v.k = "float" -> "float64" [] OTHER -> "object"

\* numpy's common dtype of a set of column dtypes.
CommonDType(S) == IF "object" \in S THEN "object"
                  ELSE IF "float64" \in S THEN "float64" ELSE "int64"

\* A value stored, or read, as dtype dt.
Cast(v, dt) == IF dt = "float64" /\ v.k = "int" THEN F(v.n, 1) ELSE v

NRows(tbl) == Len(tbl.index)
NCols(tbl) == Len(tbl.columns)

RECURSIVE Matches(_, _, _)
\* The positions from i on, in order, of the labels of seq equal to key.
Matches(seq, key, i) ==
    IF i > Len(seq) THEN <<>>
    ELSE (IF seq[i] = key THEN <<i>> ELSE <<>>) \o Matches(seq, key, i + 1)

Contiguous(ps) == \A i \in 1..(Len(ps) - 1) : ps[i + 1] = ps[i] + 1

\* df.loc[time_step, profile_name]: the rows and columns the labels select.
loc(tbl, time_step, profile_name) ==
    LET rows == Matches(tbl.index, time_step, 1)
        cols == Matches(tbl.columns, profile_name, 1)
    IN  [status |-> IF rows = <<>> \/ cols = <<>> THEN "KeyError" ELSE "ok",
         rows |-> rows, cols |-> cols]

\* The dtype of the array df.loc[...].values: one row is cut across every
\* column of the frame, several rows are cut from the selected columns.
ResDType(tbl, rows, cols) ==
    IF Len(rows) = 1
    THEN CommonDType({tbl.dtypes[c] : c \in 1..NCols(tbl)})
    ELSE CommonDType({tbl.dtypes[cols[j]] : j \in 1..Len(cols)})

\* The selected cells in row-major order, as the array holds them.
ResVals(tbl, rows, cols) ==
    LET dt == ResDType(tbl, rows, cols)
        nc == Len(cols)
    IN  [i \in 1..(Len(rows) * nc) |->
            Cast(tbl.cells[rows[((i - 1) \div nc) + 1]][cols[((i - 1) % nc) + 1]], dt)]

\* Whether .values can be a view of the frame's memory: the columns it was
\* cut from share one dtype, so that nothing was cast, and the selection is
\* one contiguous run on both axes.
CanView(tbl, rows, cols) ==
    /\ IF Len(rows) = 1
       THEN \A c \in 1..NCols(tbl) : tbl.dtypes[c] = tbl.dtypes[1]
       ELSE \A j \in 1..Len(cols) : tbl.dtypes[cols[j]] = tbl.dtypes[cols[1]]
    /\ Contiguous(rows)
    /\ Contiguous(cols)

RECURSIVE ObjMul(_, _, _)
\* The object-dtype loop of arr *= s from element i on: each element is
\* replaced by its product as it is computed, the first failure raises.
ObjMul(vals, s, i) ==
    IF i > Len(vals) THEN [status |-> "ok", vals |-> vals]
    ELSE LET r == PyMul(vals[i], s)
         IN  IF r.status # "ok" THEN [status |-> r.status, vals |-> vals]
             ELSE ObjMul([vals EXCEPT ![i] = r.v], s, i + 1)

\* arr *= s on an ndarray of dtype dt: the status and the array's content
\* afterwards.  The product of an int64 array and a float cannot be cast
\* back into the int64 array.
InPlaceMul(dt, vals, s) ==
    CASE dt = "int64" /\ s.k # "int" -> [status |-> "TypeError", vals |-> vals]
      [] dt = "object" -> ObjMul(vals, s, 1)
      [] OTHER -> [status |-> "ok",
                   vals |-> [i \in 1..Len(vals) |-> PyMul(vals[i], s).v]]

\* The frame after the array's content is stored at the selected cells.
WriteBack(tbl, rows, cols, vals) ==
    LET nc == Len(cols)
        At(r, c) == CHOOSE i \in 1..Len(vals) :
                        rows[((i - 1) \div nc) + 1] = r /\ cols[((i - 1) % nc) + 1] = c
        Sel(r, c) == (\E i \in 1..Len(rows) : rows[i] = r)
                     /\ (\E j \in 1..Len(cols) : cols[j] = c)
    IN  [tbl EXCEPT !.cells =
            [r \in 1..NRows(tbl) |-> [c \in 1..NCols(tbl) |->
                IF Sel(r, c) THEN vals[At(r, c)] ELSE tbl.cells[r][c]]]]

Result(status, shape, vals, df) ==
    [status |-> status, shape |-> shape, vals |-> vals, df |-> df]

\* Lines 50-53 for the selection sel of a successful lookup: a scalar has no
\* attribute 'values' and res is rebound to the product; a Series or frame
\* is replaced by its ndarray, which is multiplied in place.  view says
\* whether the build makes that ndarray a view of the frame where it can.
\* The result carries the frame as the call leaves it.
imul(tbl, sel, scale_factor, view) ==
    IF Len(sel.rows) = 1 /\ Len(sel.cols) = 1
    THEN LET r == PyMul(tbl.cells[sel.rows[1]][sel.cols[1]], scale_factor)
         IN  IF r.status # "ok" THEN Result(r.status, "none", <<>>, tbl)
             ELSE Result("ok", "scalar", <<r.v>>, tbl)
    ELSE LET dt == ResDType(tbl, sel.rows, sel.cols)
             m == InPlaceMul(dt, ResVals(tbl, sel.rows, sel.cols), scale_factor)
             aliased == view /\ CanView(tbl, sel.rows, sel.cols)
             after == IF aliased THEN WriteBack(tbl, sel.rows, sel.cols, m.vals)
                      ELSE tbl
         IN  IF m.status # "ok" THEN Result(m.status, "none", <<>>, after)
             ELSE Result("ok", "array", m.vals, after)

\* The method without line 52: the looked-up value is returned unscaled.
get_time_step_value_unscaled(tbl, time_step, profile_name, scale_factor, view) ==
    LET sel == loc(tbl, time_step, profile_name)
    IN  IF sel.status # "ok" THEN Result("KeyError", "none", <<>>, tbl)
        ELSE imul(tbl, sel, I(1), view)

\* The method with a lookup that falls back to 0.0 for a missing label.
get_time_step_value_default(tbl, time_step, profile_name, scale_factor, view) ==
    LET sel == loc(tbl, time_step, profile_name)
    IN  IF sel.status # "ok" THEN Result("ok", "scalar", <<F(0, 1)>>, tbl)
        ELSE imul(tbl, sel, scale_factor, view)

\* DFData.get_time_step_value on the frame tbl.
get_time_step_value(tbl, time_step, profile_name, scale_factor, view) ==
    LET sel == loc(tbl, time_step, profile_name)
    IN  IF sel.status # "ok" THEN Result("KeyError", "none", <<>>, tbl)
        ELSE imul(tbl, sel, scale_factor, view)

\* The builds that differ on this lookup: where .values can be a view, one
\* that makes it a view and one that copies.
Builds(tbl, time_step, profile_name) ==
    LET sel == loc(tbl, time_step, profile_name)
    IN  IF sel.status = "ok" /\ Len(sel.rows) * Len(sel.cols) > 1
           /\ CanView(tbl, sel.rows, sel.cols)
        THEN BOOLEAN ELSE {FALSE}

\* The method counting the wrong axis: len(self.df.columns).
get_time_steps_len_columns(tbl) == NCols(tbl)

\* DFData.get_time_steps_len
get_time_steps_len(tbl) == NRows(tbl)

ReprMaxColumns == 10

\* DFData.__repr__: the class name, both counts and, for few columns, the labels.
repr(tbl) ==
    [name |-> "DFData", rows |-> NRows(tbl), columns |-> NCols(tbl),
     labels |-> IF NCols(tbl) <= ReprMaxColumns THEN tbl.columns ELSE <<>>]

\* The constructor without line 38: only the index is converted.
DFData_init_index_only(h, ref, multi) ==
    LET i == astype_int(h[ref].index)
        me == [df |-> ref]
    IN  IF ~multi THEN [status |-> "ok", heap |-> h, self |-> me]
        ELSE IF i.status # "ok" THEN [status |-> i.status, heap |-> h, self |-> me]
        ELSE [status |-> "ok", heap |-> [h EXCEPT ![ref].index = i.keys], self |-> me]

\* The constructor keeping a copy: self.df = df.copy().
DFData_init_copy(h, ref, multi) ==
    LET tbl == h[ref]
        i == astype_int(tbl.index)
        c == astype_int(tbl.columns)
        me == [df |-> "own"]
        Own(t) == ("own" :> t) @@ h
    IN  IF ~multi THEN [status |-> "ok", heap |-> Own(tbl), self |-> me]
        ELSE IF i.status # "ok" THEN [status |-> i.status, heap |-> Own(tbl), self |-> me]
        ELSE IF c.status # "ok"
        THEN [status |-> c.status, heap |-> Own([tbl EXCEPT !.index = i.keys]), self |-> me]
        ELSE [status |-> "ok", self |-> me,
              heap |-> Own([tbl EXCEPT !.index = i.keys, !.columns = c.keys])]

\* DFData.__init__(df, multi) for the frame at reference ref: the heap and
\* the wrapper afterwards.  self.df is the caller's frame itself, and the
\* index is assigned (line 37) before the columns are converted (line 38).
DFData_init(h, ref, multi) ==
    LET tbl == h[ref]
        i == astype_int(tbl.index)
        h1 == [h EXCEPT ![ref].index = i.keys]
        c == astype_int(tbl.columns)
        h2 == [h1 EXCEPT ![ref].columns = c.keys]
        me == [df |-> ref]
    IN  IF ~multi THEN [status |-> "ok", heap |-> h, self |-> me]
        ELSE IF i.status # "ok" THEN [status |-> i.status, heap |-> h, self |-> me]
        ELSE IF c.status # "ok" THEN [status |-> c.status, heap |-> h1, self |-> me]
        ELSE [status |-> "ok", heap |-> h2, self |-> me]

(***************************************************************************)
(* The inputs: the labels, cell contents and scale factors drawn from.     *)
(***************************************************************************)
Labels == {I(1), T(<<"0", "1">>), T(<<"p">>)}

Scales == {F(1, 1), I(2)}

DefaultScale == F(1, 1)

WriteValues == {F(1, 2)}

RowValues == {I(3)}

\* The content of cell (r, c) of a frame built with every column of dtype dt.
Fill(dt, r, c) ==
    CASE dt = "int64" -> I(r + c - 1)
      [] dt = "float64" -> Frac(2 * (r + c) - 3, 2)
      [] OTHER -> IF (r + c) % 2 = 0 THEN T(<<"a">>) ELSE I(r + c - 1)

SeqsUpTo(S, lo, hi) == UNION {[1..n -> S] : n \in lo..hi}

Frame(index, columns, dt) ==
    [index |-> index, columns |-> columns,
     dtypes |-> [c \in 1..Len(columns) |-> dt],
     cells |-> [r \in 1..Len(index) |-> [c \in 1..Len(columns) |-> Fill(dt, r, c)]]]

\* The frames a wrapper is built on when it is their only user: any labels
\* on both axes, duplicates included, and each of the dtypes.
Frames == {Frame(i, c, dt) : i \in SeqsUpTo(Labels, 0, MaxRows),
                             c \in SeqsUpTo(Labels, 1, MaxCols), dt \in DTypes}

SharedLabels == {I(1), T(<<"p">>)}

Distinct(keys) == \A i, j \in 1..Len(keys) : keys[i] = keys[j] => i = j

\* The frames that another holder goes on changing: numeric data at time
\* step 1, under distinct column labels.
SharedFrames == {Frame(i, c, dt) :
                    i \in SeqsUpTo({I(1)}, 0, MaxRows),
                    c \in {k \in SeqsUpTo(SharedLabels, 1, MaxCols) : Distinct(k)},
                    dt \in {"int64", "float64"}}

Small(v) == v.n <= MaxMag /\ v.d <= MaxMag /\ Len(v.s) <= MaxMag

SmallFrame(tbl) == \A r \in 1..NRows(tbl) : \A c \in 1..NCols(tbl) : Small(tbl.cells[r][c])

(***************************************************************************)
(* The record of the latest step: the call, its arguments, its outcome,    *)
(* the caller's frame before it and the external change right before it.   *)
(***************************************************************************)
NoFrame == [index |-> <<>>, columns |-> <<>>, dtypes |-> <<>>, cells |-> <<>>]
NoArgs == [t |-> I(0), p |-> I(0), s |-> I(0), multi |-> FALSE]
NoExt == [kind |-> "none", r |-> 0, c |-> 0, v |-> I(0), old |-> I(0)]
NoSelf == [df |-> "none"]

Call(op, args, status, shape, vals, before, ext) ==
    [op |-> op, args |-> args, status |-> status, shape |-> shape, vals |-> vals,
     before |-> before, ext |-> ext]

NoCall == Call("none", NoArgs, "none", "none", <<>>, NoFrame, NoExt)

External(ext) == Call("ext", NoArgs, "none", "none", <<>>, NoFrame, ext)

\* The external change made since the previous call of the wrapper.
ExtBefore == IF last.op = "ext" THEN last.ext ELSE NoExt

InitOn(frames) ==
    /\ heap \in {[caller |-> f] : f \in frames}
    /\ self = NoSelf
    /\ pc = "new"
    /\ last = NoCall
    /\ nExt = 0
    /\ build = "any"

Init == InitOn(Frames)

InitShared == InitOn(SharedFrames)

\* DFData(df, multi)
Construct(multi) ==
    /\ pc = "new"
    /\ \E r \in {DFData_init(heap, "caller", multi)} :
           /\ heap' = r.heap
           /\ self' = IF r.status = "ok" THEN r.self ELSE NoSelf
           /\ pc' = IF r.status = "ok" THEN "ready" ELSE "failed"
           /\ last' = Call("init", [NoArgs EXCEPT !.multi = multi], r.status, "none",
                           <<>>, heap["caller"], NoExt)
    /\ UNCHANGED <<nExt, build>>

\* ds.get_time_step_value(time_step, profile_name, scale_factor).  The first
\* call whose ndarray can be a view settles whether this build makes views;
\* calls on a frame holding a cell beyond MaxMag are left out.
GetValue(t, p, s, view) ==
    /\ pc = "ready"
    /\ SmallFrame(heap[self.df])
    /\ view \in Builds(heap[self.df], t, p)
    /\ Builds(heap[self.df], t, p) = BOOLEAN =>
            /\ build \in {"any", IF view THEN "view" ELSE "copy"}
            /\ build' = IF view THEN "view" ELSE "copy"
    /\ Builds(heap[self.df], t, p) # BOOLEAN => build' = build
    /\ \E r \in {get_time_step_value(heap[self.df], t, p, s, view)} :
       LET args == [NoArgs EXCEPT !.t = t, !.p = p, !.s = s]
       IN  /\ heap' = [heap EXCEPT ![self.df] = r.df]
           /\ last' = Call("get", args, r.status, r.shape, r.vals, heap["caller"],
                           ExtBefore)
    /\ UNCHANGED <<self, pc, nExt>>

\* ds.get_time_steps_len()
GetLen ==
    /\ pc = "ready"
    /\ last' = Call("len", NoArgs, "ok", "scalar",
                    <<I(get_time_steps_len(heap[self.df]))>>, heap["caller"],
                    ExtBefore)
    /\ UNCHANGED <<heap, self, pc, nExt, build>>

\* repr(ds)
Repr ==
    /\ pc = "ready"
    /\ last' = Call("repr", NoArgs, "ok", "text", <<repr(heap[self.df])>>,
                    heap["caller"], ExtBefore)
    /\ UNCHANGED <<heap, self, pc, nExt, build>>

(***************************************************************************)
(* The other holder of the frame: it stores a value into a cell, appends a *)
(* row under a new label (df.loc[key] = v) and drops the rows of a label   *)
(* (df.drop(key, inplace=True)), each on the caller's own frame.  A column *)
(* is promoted to the dtype that holds the value stored into it.           *)
(***************************************************************************)
RECURSIVE Others(_, _, _)
\* The positions from i on, in order, of the labels of seq other than key.
Others(seq, key, i) ==
    IF i > Len(seq) THEN <<>>
    ELSE (IF seq[i] # key THEN <<i>> ELSE <<>>) \o Others(seq, key, i + 1)

Promote(tbl, c, v) == CommonDType({tbl.dtypes[c], KindDType(v)})

ExtWrite(r, c, v) ==
    /\ pc = "ready"
    /\ nExt < MaxExt
    /\ r \in 1..NRows(heap["caller"])
    /\ c \in 1..NCols(heap["caller"])
    /\ LET tbl == heap["caller"]
           dt == Promote(tbl, c, v)
       IN  /\ heap' = [heap EXCEPT !["caller"] =
                [tbl EXCEPT !.dtypes[c] = dt,
                            !.cells = [i \in 1..NRows(tbl) |-> [j \in 1..NCols(tbl) |->
                                IF j # c THEN tbl.cells[i][j]
                                ELSE IF i = r THEN Cast(v, dt)
                                ELSE Cast(tbl.cells[i][j], dt)]]]]
           /\ last' = External([kind |-> "write", r |-> r, c |-> c,
                                v |-> Cast(v, dt), old |-> tbl.cells[r][c]])
    /\ nExt' = nExt + 1
    /\ UNCHANGED <<self, pc, build>>

ExtAddRow(key, v) ==
    /\ pc = "ready"
    /\ nExt < MaxExt
    /\ NRows(heap["caller"]) < MaxRows
    /\ ~\E i \in 1..NRows(heap["caller"]) : heap["caller"].index[i] = key
    /\ LET tbl == heap["caller"]
           dts == [c \in 1..NCols(tbl) |-> Promote(tbl, c, v)]
       IN  /\ heap' = [heap EXCEPT !["caller"] =
                [tbl EXCEPT !.index = Append(tbl.index, key),
                            !.dtypes = dts,
                            !.cells = [i \in 1..(NRows(tbl) + 1) |-> [j \in 1..NCols(tbl) |->
                                IF i > NRows(tbl) THEN Cast(v, dts[j])
                                ELSE Cast(tbl.cells[i][j], dts[j])]]]]
           /\ last' = External([NoExt EXCEPT !.kind = "add", !.r = NRows(tbl) + 1])
    /\ nExt' = nExt + 1
    /\ UNCHANGED <<self, pc, build>>

ExtRemoveRow(key) ==
    /\ pc = "ready"
    /\ nExt < MaxExt
    /\ \E i \in 1..NRows(heap["caller"]) : heap["caller"].index[i] = key
    /\ LET tbl == heap["caller"]
           keep == Others(tbl.index, key, 1)
       IN  /\ heap' = [heap EXCEPT !["caller"] =
                [tbl EXCEPT !.index = [i \in 1..Len(keep) |-> tbl.index[keep[i]]],
                            !.cells = [i \in 1..Len(keep) |-> tbl.cells[keep[i]]]]]
           /\ last' = External([NoExt EXCEPT !.kind = "remove", !.r = Len(keep)])
    /\ nExt' = nExt + 1
    /\ UNCHANGED <<self, pc, build>>

Next ==
    \/ \E multi \in BOOLEAN : Construct(multi)
    \/ \E t \in Labels, p \in Labels, s \in Scales, view \in BOOLEAN : GetValue(t, p, s, view)
    \/ GetLen
    \/ Repr

NextShared ==
    \/ Next
    \/ \E r \in 1..MaxRows, c \in 1..MaxCols, v \in WriteValues : ExtWrite(r, c, v)
    \/ \E key \in SharedLabels, v \in RowValues : ExtAddRow(key, v)
    \/ \E key \in SharedLabels : ExtRemoveRow(key)

\* The wrapper as the only user of its frame.
Spec == Init /\ [][Next]_vars

\* The wrapper and another holder of the frame.
SpecShared == InitShared /\ [][NextShared]_vars

(***************************************************************************)
(* The claims.  Each is about the latest step: last.before is the caller's *)
(* frame when the call was made, heap["caller"] the frame it left.         *)
(***************************************************************************)
Present(keys, key) == \E i \in 1..Len(keys) : keys[i] = key

Occurrences(keys, key) == Cardinality({i \in 1..Len(keys) : keys[i] = key})

\* The position of the only label of keys equal to key.
Only(keys, key) == CHOOSE i \in 1..Len(keys) : keys[i] = key

\* The latest step is a get_time_step_value whose labels name exactly one cell.
OneCell ==
    /\ last.op = "get"
    /\ Occurrences(last.before.index, last.args.t) = 1
    /\ Occurrences(last.before.columns, last.args.p) = 1

\* The cell they name, as the frame held it when the call was made.
TheCell ==
    last.before.cells[Only(last.before.index, last.args.t)]
                     [Only(last.before.columns, last.args.p)]

\* res is the number cell * scale.
IsProduct(res, cell, scale) ==
    IsNum(res) /\ IsNum(cell) /\ res.n * cell.d * scale.d = cell.n * scale.n * res.d

\* C1: a get_time_step_value whose row key and column key are both present
\* and name a numeric cell returns the stored cell value multiplied by
\* scale_factor, and with the default scale_factor 1.0 a value equal to the
\* stored cell value.
C1_ReturnsCellTimesScale ==
    (OneCell /\ IsNum(TheCell)) =>
        /\ last.status = "ok"
        /\ last.shape = "scalar"
        /\ Len(last.vals) = 1
        /\ IsProduct(last.vals[1], TheCell, last.args.s)
        /\ (last.args.s = DefaultScale => NumEq(last.vals[1], TheCell))

\* The second of two columns was read with a scale factor that changes its
\* value.
C1_Witness ==
    /\ OneCell /\ IsNum(TheCell)
    /\ NCols(last.before) = 2
    /\ Only(last.before.columns, last.args.p) = 2
    /\ last.args.s = I(2)
    /\ last.status = "ok"
    /\ ~NumEq(last.vals[1], TheCell)

\* C2: get_time_steps_len returns the row count the caller's frame has at the
\* moment of the call, whatever rows were added or removed before it.
C2_LenIsCurrentRowCount ==
    last.op = "len" =>
        /\ last.status = "ok"
        /\ last.vals = <<I(Len(last.before.index))>>
        /\ heap["caller"] = last.before

\* The length was asked right after another holder appended a row, and the
\* new row is counted.
C2_Witness ==
    /\ last.op = "len"
    /\ last.ext.kind = "add"
    /\ last.vals = <<I(last.ext.r)>>
    /\ last.ext.r = MaxRows

\* C3: after another holder overwrites cell (t, p), the next
\* get_time_step_value(t, p, s) returns the new cell value times s.
C3_ReadsOverwrittenCell ==
    (/\ OneCell
     /\ last.ext.kind = "write"
     /\ last.ext.r = Only(last.before.index, last.args.t)
     /\ last.ext.c = Only(last.before.columns, last.args.p)
     /\ IsNum(last.ext.v)) =>
        /\ last.status = "ok"
        /\ Len(last.vals) = 1
        /\ IsProduct(last.vals[1], last.ext.v, last.args.s)

\* The cell read had just been given a value other than the one it held.
C3_Witness ==
    /\ OneCell
    /\ last.ext.kind = "write"
    /\ last.ext.r = Only(last.before.index, last.args.t)
    /\ last.ext.c = Only(last.before.columns, last.args.p)
    /\ ~NumEq(last.ext.v, last.ext.old)
    /\ last.status = "ok"
    /\ ~NumEq(last.vals[1], last.ext.old)
    /\ last.args.s = DefaultScale

\* C4: get_time_step_value with a time_step that is no row key, or a
\* profile_name that is no column key, fails with a KeyError, returns nothing
\* and leaves the frame unchanged.
C4_MissingKeyRaises ==
    (/\ last.op = "get"
     /\ \/ ~Present(last.before.index, last.args.t)
        \/ ~Present(last.before.columns, last.args.p)) =>
        /\ last.status = "KeyError"
        /\ last.shape = "none"
        /\ last.vals = <<>>
        /\ heap["caller"] = last.before

\* The row key was present and the column key was not.
C4_Witness ==
    /\ last.op = "get"
    /\ Present(last.before.index, last.args.t)
    /\ ~Present(last.before.columns, last.args.p)
    /\ last.status = "KeyError"

\* C5: construction without the flag and every get_time_step_value,
\* get_time_steps_len and __repr__ leave every cell, row key and column key
\* of the caller's frame unchanged.
C5_WrapperNeverMutates ==
    /\ (last.op \in {"get", "len", "repr"} => heap["caller"] = last.before)
    /\ (last.op = "init" /\ ~last.args.multi => heap["caller"] = last.before)

\* C6: construction with multi=True on a frame whose labels are all
\* int-convertible succeeds and rewrites the caller's own frame: every row
\* key and column key is the int its original label converts to, their
\* number and order are unchanged, and nothing else of the frame changes.
C6_CoercesCallersFrame ==
    (/\ last.op = "init" /\ last.args.multi
     /\ \A i \in 1..NRows(last.before) : Convertible(last.before.index[i])
     /\ \A j \in 1..NCols(last.before) : Convertible(last.before.columns[j])) =>
        /\ last.status = "ok"
        /\ self.df = "caller"
        /\ NRows(heap["caller"]) = NRows(last.before)
        /\ NCols(heap["caller"]) = NCols(last.before)
        /\ \A i \in 1..NRows(last.before) :
                /\ heap["caller"].index[i].k = "int"
                /\ heap["caller"].index[i] = ToInt(last.before.index[i])
        /\ \A j \in 1..NCols(last.before) :
                /\ heap["caller"].columns[j].k = "int"
                /\ heap["caller"].columns[j] = ToInt(last.before.columns[j])
        /\ heap["caller"].cells = last.before.cells
        /\ heap["caller"].dtypes = last.before.dtypes

\* A frame with a str row key and a str column key was coerced, and the
\* caller's frame now carries the ints.
C6_Witness ==
    /\ last.op = "init" /\ last.args.multi /\ last.status = "ok"
    /\ NRows(last.before) = 1 /\ NCols(last.before) = 2
    /\ last.before.index[1] = T(<<"0", "1">>)
    /\ last.before.columns = <<I(1), T(<<"0", "1">>)>>
    /\ heap["caller"].index[1] = I(1)
    /\ heap["caller"].columns = <<I(1), I(1)>>

\* C7: a get_time_step_value repeated with the same arguments, the frame not
\* changed from outside in between, returns the same result again.
C7_RepeatedReadsAgree ==
    [][(last.op = "get" /\ last'.op = "get" /\ last'.args = last.args) =>
            (/\ last'.status = last.status
             /\ last'.shape = last.shape
             /\ last'.vals = last.vals)]_vars

\* C8: one row key and one column give a scalar; one row key and several
\* columns of numeric cells give a sequence with one entry per matching
\* column, in column order, each the stored cell times scale_factor.
C8_ScalarOrSequence ==
    LET rows == Matches(last.before.index, last.args.t, 1)
        cols == Matches(last.before.columns, last.args.p, 1)
        row == last.before.cells[rows[1]]
    IN  (/\ last.op = "get"
         /\ Len(rows) = 1 /\ Len(cols) >= 1
         /\ \A j \in 1..Len(cols) : IsNum(row[cols[j]])) =>
            /\ last.status = "ok"
            /\ last.shape = IF Len(cols) = 1 THEN "scalar" ELSE "array"
            /\ Len(last.vals) = Len(cols)
            /\ \A j \in 1..Len(cols) :
                    IsProduct(last.vals[j], row[cols[j]], last.args.s)

\* C9: get_time_step_value on a present cell holding text fails with a
\* TypeError for every numeric scale_factor.
C9_TextCellRaises ==
    (OneCell /\ TheCell.k = "str") =>
        /\ last.status = "TypeError"
        /\ last.vals = <<>>

\* C10: a construction with multi=True that fails leaves the caller's frame
\* exactly as it was.
C10_FailedCoercionNoEffect ==
    (last.op = "init" /\ last.status # "ok") => heap["caller"] = last.before

====
